---- MODULE Spec2Model ----
(***************************************************************************)
(* A model of Annif's evaluation engine (annif/eval.py) and of the backend *)
(* registry lookup (annif/backend/__init__.py).                            *)
(*                                                                         *)
(* Three specifications share the module:                                  *)
(*   Spec         the EvaluationBatch accumulator: evaluate() / results()  *)
(*   SpecMetric   the metric library applied to drawn (selected, relevant) *)
(*                batches                                                  *)
(*   SpecBackend  get_backend() under every set of installed optional      *)
(*                dependencies                                             *)
(*                                                                         *)
(* Numbers.  A metric returns a record [exc, n, d]: exc = "" and the       *)
(* value n/d, or exc naming the exception raised.  Counts are n/1.         *)
(* Precision, recall and F-measure are exact reduced fractions.  DCG is a  *)
(* fixed-point number in thousandths (the weights 1/log2(i+1) are          *)
(* irrational), and nDCG is n/1000 with the quotient truncated.            *)
(***************************************************************************)
EXTENDS Integers, Sequences, FiniteSets, TLC

VARIABLES
    samples,              \* EvaluationBatch._samples
    transformed_samples,  \* the list results() last built (eval.py:153)
    ret,                  \* outcome of the last call on the EvaluationBatch
    selected,             \* SpecMetric: per-document predicted sequences
    relevant,             \* SpecMetric: per-document gold sets
    result,               \* SpecMetric: outcome of the last metric call
    importable,           \* SpecBackend: optional backend modules that import
    backend_id,           \* SpecBackend: argument of the last get_backend()
    backend_ret           \* SpecBackend: outcome of the last get_backend()

vars == <<samples, transformed_samples, ret, selected, relevant, result,
          importable, backend_id, backend_ret>>

batch_vars == <<samples, transformed_samples, ret>>
metric_vars == <<selected, relevant, result>>
backend_vars == <<importable, backend_id, backend_ret>>

(***************************************************************************)
(* Bounds and input universes                                              *)
(***************************************************************************)

\* A batch holds at most MaxSize entries, counting one per document, one per
\* predicted item and one per gold subject of the document.
MaxSize == 6

\* subject keys of the metric library's inputs
Labels == {"A", "B", "C"}

\* cutoffs tried for at_k (evaluate() itself uses 1, 3, 5 and 10)
Cutoffs == {1, 3, 5}

\* at_k is an optional integer: <<>> is None, <<k>> is k
None == <<>>

Some(k) == <<k>>

\* Hits a backend may produce: u1 and u2 are distinct concepts that share
\* the display label "A".
HitPool == {[uri |-> "u1", label |-> "A"], [uri |-> "u2", label |-> "A"]}

\* Subjects a gold standard may name.
GoldPool == {[uri |-> "u1", label |-> "A"], [uri |-> "u3", label |-> "B"]}

\* A gold subject set exposes subject_uris, subject_labels and has_uris();
\* has_uris() is defined outside eval.py, so every answer is allowed.
GoldSubjects == {[has_uris |-> h,
                  subject_uris |-> {s.uri : s \in S},
                  subject_labels |-> {s.label : s \in S}] :
                     h \in BOOLEAN, S \in SUBSET GoldPool}

SeqsUpTo(S, n) == UNION {[1..m -> S] : m \in 0..n}

(***************************************************************************)
(* Python helpers                                                          *)
(***************************************************************************)

Min(a, b) == IF a < b THEN a ELSE b

\* set(seq)
Range(s) == {s[i] : i \in DOMAIN s}

\* seq[:k] for k >= 0
Take(s, k) == SubSeq(s, 1, Min(k, Len(s)))

\* list(a_set): some enumeration of the set
RECURSIVE SetToSeq(_)
SetToSeq(S) ==
    IF S = {} THEN <<>>
    ELSE LET x == CHOOSE y \in S : TRUE IN <<x>> \o SetToSeq(S \ {x})

\* the pairs zip(selected, relevant) yields
ZipLen(a, b) == Min(Len(a), Len(b))

RECURSIVE GCD(_, _)
GCD(a, b) == IF b = 0 THEN a ELSE GCD(b, a % b)

\* a returned number n/d, reduced
Val(n, d) ==
    LET g == GCD(n, d) IN
    IF g = 0 THEN [exc |-> "", n |-> 0, d |-> 1]
    ELSE [exc |-> "", n |-> n \div g, d |-> d \div g]

\* a returned fixed-point number, n thousandths
Fixed(n) == [exc |-> "", n |-> n, d |-> 1000]

\* an exception leaving the function
Raise(e) == [exc |-> e, n |-> 0, d |-> 0]

\* x + y for two returned numbers
Add(x, y) == Val(x.n * y.d + y.n * x.d, x.d * y.d)

\* a / b with the sklearn convention that an ill-defined ratio is 0
\* (the warning is suppressed at eval.py:19-20)
SafeRatio(a, b) == IF b = 0 THEN Val(0, 1) ELSE Val(a, b)

(***************************************************************************)
(* Metric library (annif/eval.py)                                          *)
(***************************************************************************)

\* MultiLabelBinarizer.fit: the classes are every label seen in the gold
\* collections and in the predicted sequences
mlb_fit(sel, rel) ==
    UNION {rel[i] : i \in DOMAIN rel} \cup UNION {Range(sel[i]) : i \in DOMAIN sel}

\* MultiLabelBinarizer.transform: one indicator row per document, one 0/1
\* column per class; a label repeated in a document sets its column once
mlb_transform(sets, classes) ==
    [i \in DOMAIN sets |-> [c \in classes |-> IF c \in sets[i] THEN 1 ELSE 0]]

\* columns set in a row / in both rows
Ones(row) == {c \in DOMAIN row : row[c] = 1}

\* the per-document score of precision_score, recall_score and f1_score
sample_score(yt, yp, metric_fn) ==
    LET tp == Cardinality(Ones(yt) \cap Ones(yp))
        np == Cardinality(Ones(yp))
        nt == Cardinality(Ones(yt))
    IN  CASE metric_fn = "precision_score" -> SafeRatio(tp, np)
          [] metric_fn = "recall_score" -> SafeRatio(tp, nt)
          [] metric_fn = "f1_score" -> SafeRatio(2 * tp, np + nt)

RECURSIVE SumScores(_, _, _, _)
SumScores(y_true, y_pred, metric_fn, i) ==
    IF i = 0 THEN Val(0, 1)
    ELSE Add(SumScores(y_true, y_pred, metric_fn, i - 1),
             sample_score(y_true[i], y_pred[i], metric_fn))

\* metric_fn(y_true, y_pred, average='samples').  scikit-learn accepts the
\* arrays as multilabel indicators only when they have at least two columns;
\* with one column they are a binary target and with none an unknown one,
\* and the sample average of either is refused with a ValueError.
samples_average(y_true, y_pred, classes, metric_fn) ==
    IF Len(y_true) # Len(y_pred) THEN Raise("ValueError")
    ELSE IF Cardinality(classes) < 2 THEN Raise("ValueError")
    ELSE LET total == SumScores(y_true, y_pred, metric_fn, Len(y_true))
         IN  Val(total.n, total.d * Len(y_true))

sklearn_metric_score(sel, rel, metric_fn) ==
    LET classes == mlb_fit(sel, rel)
        y_true == mlb_transform(rel, classes)
        y_pred == mlb_transform([i \in DOMAIN sel |-> Range(sel[i])], classes)
    IN  samples_average(y_true, y_pred, classes, metric_fn)

precision(sel, rel, at_k) ==
    LET cut == IF at_k # None
               THEN [i \in DOMAIN sel |-> Take(sel[i], at_k[1])]
               ELSE sel
    IN  sklearn_metric_score(cut, rel, "precision_score")

recall(sel, rel) == sklearn_metric_score(sel, rel, "recall_score")

f_measure(sel, rel) == sklearn_metric_score(sel, rel, "f1_score")

RECURSIVE true_positives_loop(_, _, _)
true_positives_loop(sel, rel, i) ==
    IF i = 0 THEN 0
    ELSE true_positives_loop(sel, rel, i - 1)
         + Cardinality(Range(sel[i]) \cap rel[i])

\* faulty variant: the return sits inside the loop, so only the first pair counts
true_positives_first_only(sel, rel) ==
    Val(true_positives_loop(sel, rel, Min(1, ZipLen(sel, rel))), 1)

true_positives(sel, rel) == Val(true_positives_loop(sel, rel, ZipLen(sel, rel)), 1)

RECURSIVE false_positives_loop(_, _, _)
false_positives_loop(sel, rel, i) ==
    IF i = 0 THEN 0
    ELSE false_positives_loop(sel, rel, i - 1)
         + Cardinality(Range(sel[i]) \ rel[i])

\* faulty variant: the set difference is taken the wrong way round
false_positives_swapped(sel, rel) ==
    LET RECURSIVE loop(_)
        loop(i) == IF i = 0 THEN 0
                   ELSE loop(i - 1) + Cardinality(rel[i] \ Range(sel[i]))
    IN  Val(loop(ZipLen(sel, rel)), 1)

false_positives(sel, rel) == Val(false_positives_loop(sel, rel, ZipLen(sel, rel)), 1)

RECURSIVE false_negatives_loop(_, _, _)
false_negatives_loop(sel, rel, i) ==
    IF i = 0 THEN 0
    ELSE false_negatives_loop(sel, rel, i - 1)
         + Cardinality(rel[i] \ Range(sel[i]))

false_negatives(sel, rel) == Val(false_negatives_loop(sel, rel, ZipLen(sel, rel)), 1)

\* 1000 / log2(i + 1), rounded, for the ranks i = 1..10
log2_weights == <<1000, 631, 500, 431, 387, 356, 333, 315, 301, 289>>

RECURSIVE SumGain(_, _, _)
SumGain(items, rel, i) ==
    IF i = 0 THEN 0
    ELSE SumGain(items, rel, i - 1)
         + (IF items[i] \in rel THEN log2_weights[i] ELSE 0)

\* dcg() of one document; sel is the sequence list(selected) iterates
dcg(sel, rel, at_k) ==
    IF Len(sel) = 0 \/ Cardinality(rel) = 0 THEN Fixed(0)
    ELSE LET items == Take(sel, at_k)
         IN  Fixed(SumGain(items, rel, Len(items)))

\* faulty variant: a zero ideal DCG is scored as a perfect document
ndcg_score_zero_is_perfect(ssubj, rsubj, at_k) ==
    LET dcg_val == dcg(ssubj, rsubj, at_k)
        dcg_max == dcg(SetToSeq(rsubj), rsubj, at_k)
    IN  IF dcg_max.n = 0 THEN 1000
        ELSE (dcg_val.n * 1000) \div dcg_max.n

\* the score normalized_dcg appends for one document, in thousandths
ndcg_score(ssubj, rsubj, at_k) ==
    LET dcg_val == dcg(ssubj, rsubj, at_k)
        dcg_max == dcg(SetToSeq(rsubj), rsubj, at_k)
    IN  IF dcg_max.n = 0 THEN 0
        ELSE (dcg_val.n * 1000) \div dcg_max.n

RECURSIVE SumSeq(_, _)
SumSeq(s, i) == IF i = 0 THEN 0 ELSE SumSeq(s, i - 1) + s[i]

\* statistics.mean of fixed-point scores
mean(scores) ==
    IF Len(scores) = 0 THEN Raise("StatisticsError")
    ELSE Fixed(SumSeq(scores, Len(scores)) \div Len(scores))

normalized_dcg(sel, rel, at_k) ==
    mean([i \in 1..ZipLen(sel, rel) |-> ndcg_score(sel[i], rel[i], at_k)])

\* the metric listing of evaluate(), each applied to (hits, gold_subjects)
metrics(hits, gold) ==
    << <<"Precision", precision(hits, gold, None)>>,
       <<"Recall", recall(hits, gold)>>,
       <<"F-measure", f_measure(hits, gold)>>,
       <<"NDCG@5", normalized_dcg(hits, gold, 5)>>,
       <<"NDCG@10", normalized_dcg(hits, gold, 10)>>,
       <<"Precision@1", precision(hits, gold, Some(1))>>,
       <<"Precision@3", precision(hits, gold, Some(3))>>,
       <<"Precision@5", precision(hits, gold, Some(5))>>,
       <<"True positives", true_positives(hits, gold)>>,
       <<"False positives", false_positives(hits, gold)>>,
       <<"False negatives", false_negatives(hits, gold)>> >>

\* what a call on the accumulator ends in: None, a report (the ordered
\* name -> score pairs) or an exception
ReturnedNone == [kind |-> "none", exc |-> "", report |-> <<>>]

Returned(v) == [kind |-> "report", exc |-> "", report |-> v]

Raised(e) == [kind |-> "raise", exc |-> e, report |-> <<>>]

\* faulty variant: an empty batch is answered with a report of zeros
evaluate_zeros_when_empty(ts) ==
    LET hits == [i \in DOMAIN ts |-> ts[i][1]]
        gold == [i \in DOMAIN ts |-> ts[i][2]]
        results == metrics(hits, gold)
        failed == {i \in DOMAIN results : results[i][2].exc # ""}
    IN  IF Len(ts) = 0
        THEN Returned([i \in DOMAIN results |-> <<results[i][1], Val(0, 1)>>])
        ELSE IF failed = {} THEN Returned(results)
        ELSE Raised(results[CHOOSE i \in failed :
                              \A j \in failed : i <= j][2].exc)

\* evaluate(samples): zip(*samples) of an empty list yields nothing, so the
\* unpacking into (hits, gold_subjects) raises ValueError in the first pass
\* of the loop; otherwise the first metric that raises ends the call
evaluate(ts) ==
    IF Len(ts) = 0 THEN Raised("ValueError")
    ELSE LET hits == [i \in DOMAIN ts |-> ts[i][1]]
             gold == [i \in DOMAIN ts |-> ts[i][2]]
             results == metrics(hits, gold)
             failed == {i \in DOMAIN results : results[i][2].exc # ""}
         IN  IF failed = {} THEN Returned(results)
             ELSE Raised(results[CHOOSE i \in failed :
                                   \A j \in failed : i <= j][2].exc)

\* faulty variant: the predicted side is always projected to labels
transform_sample_label_hits(sample) ==
    LET hits == sample[1]
        gold_subjects == sample[2]
    IN  IF gold_subjects.has_uris
        THEN <<[i \in DOMAIN hits |-> hits[i].label], gold_subjects.subject_uris>>
        ELSE <<[i \in DOMAIN hits |-> hits[i].label], gold_subjects.subject_labels>>

transform_sample(sample) ==
    LET hits == sample[1]
        gold_subjects == sample[2]
    IN  IF gold_subjects.has_uris
        THEN <<[i \in DOMAIN hits |-> hits[i].uri], gold_subjects.subject_uris>>
        ELSE <<[i \in DOMAIN hits |-> hits[i].label], gold_subjects.subject_labels>>

(***************************************************************************)
(* The EvaluationBatch accumulator                                         *)
(***************************************************************************)

\* entries of one document: itself, its hits and its gold subjects
DocSize(hits, gold_subjects) ==
    1 + Len(hits) + Cardinality(gold_subjects.subject_uris)

RECURSIVE Size(_)
Size(b) ==
    IF b = <<>> THEN 0
    ELSE DocSize(b[1][1], b[1][2]) + Size(Tail(b))

NoCall == [kind |-> "init", exc |-> "", report |-> <<>>]

\* EvaluationBatch.__init__
BatchInit ==
    /\ samples = <<>>
    /\ transformed_samples = <<>>
    /\ ret = NoCall

\* EvaluationBatch.evaluate(hits, gold_subjects)
EvaluationBatch_evaluate(hits, gold_subjects) ==
    /\ Size(samples) + DocSize(hits, gold_subjects) <= MaxSize
    /\ samples' = Append(samples, <<hits, gold_subjects>>)
    /\ ret' = ReturnedNone
    /\ UNCHANGED transformed_samples

\* faulty variant: the report phase consumes the stored samples
EvaluationBatch_results_consuming ==
    /\ transformed_samples' = [i \in DOMAIN samples |-> transform_sample(samples[i])]
    /\ ret' = evaluate(transformed_samples')
    /\ samples' = <<>>

\* EvaluationBatch.results()
EvaluationBatch_results ==
    /\ transformed_samples' = [i \in DOMAIN samples |-> transform_sample(samples[i])]
    /\ ret' = evaluate(transformed_samples')
    /\ UNCHANGED samples

(***************************************************************************)
(* The metric library on drawn inputs                                      *)
(***************************************************************************)

\* batches of (selected, relevant) documents of at most n entries
RECURSIVE MetricBatches(_)
MetricBatches(n) ==
    IF n < 1 THEN {<<>>}
    ELSE {<<>>} \cup
         UNION {{<<d>> \o b :
                    b \in MetricBatches(n - 1 - Len(d[1]) - Cardinality(d[2]))} :
                    d \in {x \in SeqsUpTo(Labels, n - 1) \X SUBSET Labels :
                              1 + Len(x[1]) + Cardinality(x[2]) <= n}}

NoResult == [fn |-> "", at_k |-> None, value |-> Raise("")]

MetricInit ==
    /\ \E b \in MetricBatches(MaxSize) \ {<<>>} :
          /\ selected = [i \in DOMAIN b |-> b[i][1]]
          /\ relevant = [i \in DOMAIN b |-> b[i][2]]
    /\ result = NoResult

Call(fn, at_k, value) ==
    /\ result = NoResult
    /\ result' = [fn |-> fn, at_k |-> at_k, value |-> value]
    /\ UNCHANGED <<selected, relevant>>

CallPrecision(at_k) == Call("precision", at_k, precision(selected, relevant, at_k))

CallRecall == Call("recall", None, recall(selected, relevant))

CallFMeasure == Call("f_measure", None, f_measure(selected, relevant))

CallTruePositives == Call("true_positives", None, true_positives(selected, relevant))

CallFalsePositives == Call("false_positives", None, false_positives(selected, relevant))

CallFalseNegatives == Call("false_negatives", None, false_negatives(selected, relevant))

CallNormalizedDcg(k) ==
    Call("normalized_dcg", Some(k), normalized_dcg(selected, relevant, k))

(***************************************************************************)
(* The backend registry (annif/backend/__init__.py)                        *)
(***************************************************************************)

\* backend_id -> the module its loader imports, the class the loader returns
\* and, for a loader that guards the import, the name its message gives
backend_fns ==
    [dummy |-> [mod |-> "dummy", cls |-> "DummyBackend", guard |-> ""],
     ensemble |-> [mod |-> "ensemble", cls |-> "EnsembleBackend", guard |-> ""],
     fasttext |-> [mod |-> "fasttext", cls |-> "FastTextBackend", guard |-> "fastText"],
     http |-> [mod |-> "http", cls |-> "HTTPBackend", guard |-> ""],
     mllm |-> [mod |-> "mllm", cls |-> "MLLMBackend", guard |-> ""],
     nn_ensemble |-> [mod |-> "nn_ensemble", cls |-> "NNEnsembleBackend",
                      guard |-> "Keras and TensorFlow"],
     omikuji |-> [mod |-> "omikuji", cls |-> "OmikujiBackend", guard |-> "Omikuji"],
     pav |-> [mod |-> "pav", cls |-> "PAVBackend", guard |-> ""],
     stwfsa |-> [mod |-> "stwfsa", cls |-> "StwfsaBackend", guard |-> "STWFSA"],
     svc |-> [mod |-> "svc", cls |-> "SVCBackend", guard |-> ""],
     tfidf |-> [mod |-> "tfidf", cls |-> "TFIDFBackend", guard |-> ""],
     yake |-> [mod |-> "yake", cls |-> "YakeBackend", guard |-> "YAKE"],
     xlmroberta |-> [mod |-> "xlmroberta", cls |-> "XlmRobertaBackend",
                     guard |-> "XlmRoberta"],
     minilmv2 |-> [mod |-> "minilmv2", cls |-> "MiniLmV2Backend", guard |-> "MiniLMv2"],
     ehribert |-> [mod |-> "ehribert", cls |-> "EhriBertBackend", guard |-> "EhriBert"],
     mdeberta |-> [mod |-> "mdeberta", cls |-> "MDeBertaBackend", guard |-> "MDeBERTa"],
     mistral |-> [mod |-> "mistral", cls |-> "MistralBackend", guard |-> "Mistral"]]

\* backends whose loader guards the import of an optional dependency
OptionalBackends == {id \in DOMAIN backend_fns : backend_fns[id].guard # ""}

\* identifiers a caller may ask for that the registry does not hold
UnknownIds == {"nosuch", "FastText"}

BackendClass(cls) == [kind |-> "return", exc |-> "", msg |-> "", cls |-> cls]

BackendError(exc, msg) == [kind |-> "raise", exc |-> exc, msg |-> msg, cls |-> ""]

\* the loader _<backend_id>(): the modules of the unguarded loaders are part
\* of the package and import; a guarded loader turns ImportError into
\* ValueError
load_backend(id, mods) ==
    LET fn == backend_fns[id] IN
    IF fn.guard = "" \/ fn.mod \in mods THEN BackendClass(fn.cls)
    ELSE BackendError("ValueError", <<fn.guard, " not available, cannot use ", id, " backend">>)

get_backend(id, mods) ==
    IF id \in DOMAIN backend_fns THEN load_backend(id, mods)
    ELSE BackendError("ValueError", <<"No such backend type ", id>>)

BackendInit ==
    /\ importable \in SUBSET {backend_fns[id].mod : id \in OptionalBackends}
    /\ backend_id = ""
    /\ backend_ret = [kind |-> "init", exc |-> "", msg |-> "", cls |-> ""]

GetBackend(id) ==
    /\ backend_id' = id
    /\ backend_ret' = get_backend(id, importable)
    /\ UNCHANGED importable

(***************************************************************************)
(* Specifications                                                          *)
(***************************************************************************)

\* the variables of a part that a specification leaves out
MetricIdle == selected = <<>> /\ relevant = <<>> /\ result = NoResult

BackendIdle ==
    /\ importable = {}
    /\ backend_id = ""
    /\ backend_ret = [kind |-> "init", exc |-> "", msg |-> "", cls |-> ""]

Init == BatchInit /\ MetricIdle /\ BackendIdle

Next ==
    \/ \E gold_subjects \in GoldSubjects :
       \E hits \in SeqsUpTo(HitPool, MaxSize - Size(samples)
                                       - DocSize(<<>>, gold_subjects)) :
          EvaluationBatch_evaluate(hits, gold_subjects)
          /\ UNCHANGED <<metric_vars, backend_vars>>
    \/ EvaluationBatch_results /\ UNCHANGED <<metric_vars, backend_vars>>

Spec == Init /\ [][Next]_vars

InitMetric == MetricInit /\ BatchInit /\ BackendIdle

NextMetric ==
    \/ \E at_k \in {None} \cup {Some(k) : k \in Cutoffs} :
          CallPrecision(at_k) /\ UNCHANGED <<batch_vars, backend_vars>>
    \/ CallRecall /\ UNCHANGED <<batch_vars, backend_vars>>
    \/ CallFMeasure /\ UNCHANGED <<batch_vars, backend_vars>>
    \/ CallTruePositives /\ UNCHANGED <<batch_vars, backend_vars>>
    \/ CallFalsePositives /\ UNCHANGED <<batch_vars, backend_vars>>
    \/ CallFalseNegatives /\ UNCHANGED <<batch_vars, backend_vars>>
    \/ \E k \in Cutoffs :
          CallNormalizedDcg(k) /\ UNCHANGED <<batch_vars, backend_vars>>

SpecMetric == InitMetric /\ [][NextMetric]_vars

InitBackend == BackendInit /\ BatchInit /\ MetricIdle

NextBackend ==
    \E id \in DOMAIN backend_fns \cup UnknownIds :
        GetBackend(id) /\ UNCHANGED <<batch_vars, metric_vars>>

SpecBackend == InitBackend /\ [][NextBackend]_vars

(***************************************************************************)
(* Properties                                                              *)
(***************************************************************************)

Reverse(s) == [i \in DOMAIN s |-> s[Len(s) + 1 - i]]

\* the last call on the accumulator was results()
AfterResults == ret.kind \in {"report", "raise"}

\* the call results() makes on a fresh accumulator given the samples b
FreshResults(b) == evaluate([i \in DOMAIN b |-> transform_sample(b[i])])

One == Val(1, 1)

C2_CountsOfSequence ==
    (Len(selected) = 1 /\ result.fn = "true_positives") =>
        /\ result.value.exc = ""
        /\ result.value.n + false_negatives(selected, relevant).n
              = Cardinality(relevant[1])
        /\ result.value.n + false_positives(selected, relevant).n
              = Len(selected[1])

\* C2 amended: the same identity with the number of DISTINCT predicted
\* labels: a label repeated in the predicted sequence counts once.
C2_CountsOfDistinct ==
    (Len(selected) = 1 /\ result.fn = "true_positives") =>
        /\ result.value.exc = ""
        /\ result.value.n + false_negatives(selected, relevant).n
              = Cardinality(relevant[1])
        /\ result.value.n + false_positives(selected, relevant).n
              = Cardinality(Range(selected[1]))

C2_Witness ==
    /\ Len(selected) = 1
    /\ result.fn = "true_positives"
    /\ result.value.n > 0
    /\ Cardinality(Range(selected[1])) < Len(selected[1])
    /\ false_positives(selected, relevant).n > 0
    /\ false_negatives(selected, relevant).n > 0

\* C3: the ideal ranking bounds every ranking: dcg(relevant, relevant, k) >=
\* dcg(selected, relevant, k) for every document and cutoff, and
\* normalized_dcg never exceeds 1.0.
C3_IdealIsUpperBound ==
    /\ \A i \in DOMAIN selected, k \in Cutoffs :
          dcg(SetToSeq(relevant[i]), relevant[i], k).n
              >= dcg(selected[i], relevant[i], k).n
    /\ result.fn = "normalized_dcg" =>
          (result.value.exc = "" /\ result.value.n <= 1000)

\* C4: when every document's predicted set equals its gold set,
\* precision(at_k=None) and recall return 1.0.
C4_PerfectPrediction ==
    (\A i \in DOMAIN selected : Range(selected[i]) = relevant[i]) =>
        /\ (result.fn = "precision" /\ result.at_k = None) => result.value = One
        /\ result.fn = "recall" => result.value = One

C6_UnavailableDistinctFromUnknown ==
    (backend_id \in OptionalBackends /\ backend_ret.kind = "raise") =>
        /\ \A id \in OptionalBackends :
              get_backend(id, {}).exc = backend_ret.exc
        /\ \A u \in UnknownIds :
              get_backend(u, importable).exc # backend_ret.exc

\* C7: results() projects every stored sample by that sample's own
\* has_uris(): the hits' uris in rank order against the gold uris, or the
\* hits' labels in rank order against the gold labels, never a mixture.
C7_PerDocumentKeySpace ==
    AfterResults =>
        /\ Len(transformed_samples) = Len(samples)
        /\ \A i \in DOMAIN samples :
              LET hits == samples[i][1]
                  gold == samples[i][2]
                  sel == transformed_samples[i][1]
                  rel == transformed_samples[i][2]
              IN  /\ Len(sel) = Len(hits)
                  /\ gold.has_uris =>
                        /\ \A j \in DOMAIN hits : sel[j] = hits[j].uri
                        /\ rel = gold.subject_uris
                  /\ ~gold.has_uris =>
                        /\ \A j \in DOMAIN hits : sel[j] = hits[j].label
                        /\ rel = gold.subject_labels

C7_Witness ==
    /\ ret.kind = "report"
    /\ \E i, j \in DOMAIN samples :
          /\ samples[i][2].has_uris
          /\ ~samples[j][2].has_uris
          /\ Len(samples[i][1]) >= 2
          /\ samples[i][1][1] # samples[i][1][2]

\* C8: a document with an empty gold set scores nDCG 0 at every cutoff,
\* dcg is 0 when either side is empty, and normalized_dcg over documents
\* that all have an empty gold set returns 0.0 without raising.
C8_DegenerateIsZero ==
    /\ \A i \in DOMAIN selected, k \in Cutoffs :
          /\ relevant[i] = {} => ndcg_score(selected[i], relevant[i], k) = 0
          /\ (relevant[i] = {} \/ selected[i] = <<>>) =>
                dcg(selected[i], relevant[i], k) = Fixed(0)
    /\ (result.fn = "normalized_dcg" /\ \A i \in DOMAIN relevant : relevant[i] = {})
          => result.value = Fixed(0)

C8_Witness ==
    /\ result.fn = "normalized_dcg"
    /\ result.value = Fixed(0)
    /\ Len(selected) = 2
    /\ \A i \in DOMAIN relevant : relevant[i] = {}
    /\ selected[1] # <<>>

\* the first k predicted labels of a document, as a set (all of them for None)
TopK(s, at_k) == IF at_k = None THEN Range(s) ELSE Range(Take(s, at_k[1]))

RECURSIVE SumPrecision(_, _)
SumPrecision(at_k, i) ==
    IF i = 0 THEN Val(0, 1)
    ELSE LET top == TopK(selected[i], at_k)
         IN  Add(SumPrecision(at_k, i - 1),
                 IF top = {} THEN Val(0, 1)
                 ELSE Val(Cardinality(top \cap relevant[i]), Cardinality(top)))

RECURSIVE SumRecall(_)
SumRecall(i) ==
    IF i = 0 THEN Val(0, 1)
    ELSE Add(SumRecall(i - 1),
             IF relevant[i] = {} THEN Val(0, 1)
             ELSE Val(Cardinality(Range(selected[i]) \cap relevant[i]),
                      Cardinality(relevant[i])))

RECURSIVE SumFMeasure(_)
SumFMeasure(i) ==
    IF i = 0 THEN Val(0, 1)
    ELSE LET sel == Range(selected[i])
             den == Cardinality(sel) + Cardinality(relevant[i])
         IN  Add(SumFMeasure(i - 1),
                 IF den = 0 THEN Val(0, 1)
                 ELSE Val(2 * Cardinality(sel \cap relevant[i]), den))

MeanOf(total) == Val(total.n, total.d * Len(selected))

\* C9: precision at cutoff k is the mean over the documents of
\* |top_k & relevant| / |top_k| (0 for an empty top_k), top_k being the
\* first k predicted labels; recall and F-measure are computed over the full
\* predicted set.
C9_PrecisionAtK ==
    /\ result.fn = "precision" =>
          result.value = MeanOf(SumPrecision(result.at_k, Len(selected)))
    /\ result.fn = "recall" =>
          result.value = MeanOf(SumRecall(Len(selected)))
    /\ result.fn = "f_measure" =>
          result.value = MeanOf(SumFMeasure(Len(selected)))

\* C10: evaluate() appends exactly the submitted pair and changes no earlier
\* entry, also after a results() call; results() leaves the samples as
\* they are.
C10_AppendOnly ==
    [][/\ ret'.kind = "none" =>
             /\ Len(samples') = Len(samples) + 1
             /\ SubSeq(samples', 1, Len(samples)) = samples
       /\ ret'.kind \in {"report", "raise"} => samples' = samples]_vars

C10_Witness ==
    /\ ret.kind = "none"
    /\ transformed_samples # <<>>
    /\ Len(samples) > Len(transformed_samples)

====
